---- MODULE Spec2Model ----
(***************************************************************************)
(* Model of the singleton gRPC client bootstrapper of                      *)
(* pkg/microservices/go-micro/v4/grpc-client/client.go.                    *)
(*                                                                         *)
(* Processes: NumCallers foreground goroutines, each calling newClient     *)
(* once at an arbitrary time (a later caller stands for a sequential       *)
(* call), and the background goroutine attemptGettingRegisteredServices.   *)
(* Every step that touches the package-level variables (instance, once,    *)
(* instanceMu, initError) is one action, so that all interleavings of the  *)
(* goroutines are explored.                                                *)
(*                                                                         *)
(* The second part models LambdaHandler.HandleRequest of                   *)
(* projects/customers-manager/.../adapters/inbound/lambda-handler.go as a  *)
(* function of the request and of the outcomes of its collaborators        *)
(* (specification LambdaSpec).                                             *)
(***************************************************************************)
EXTENDS Integers, Sequences, FiniteSets, TLC

\* ------------------------------------------------------------------ bounds

\* Number of goroutines that call newClient.
NumCallers == 2

\* The registry-lookup counter saturates here (the retry loop is unbounded).
MaxLookups == 3

Procs == 1..NumCallers

\* ------------------------------------------------------------------ values

NoError == "nil"
SetupError == "error setting up gRPC client"
NoTransport == "nil"
Transport == "grpc-client"
Panic == "panic: index out of range"
NoName == "none"

\* Service records returned by the registry (registry.Service: name + nodes).
SvcA == [name |-> "orders", node |-> "n1"]
SvcB == [name |-> "orders-v2", node |-> "n2"]

\* The three shapes of consulRegistry.GetService's answer: an error, an
\* empty list, a non-empty list.
RegistryError == [services |-> <<>>, err |-> TRUE]
RegistryEmpty == [services |-> <<>>, err |-> FALSE]
FailingAnswers == {RegistryError, RegistryEmpty}
RegistryAnswers ==
    FailingAnswers \cup {[services |-> <<SvcA>>, err |-> FALSE],
                         [services |-> <<SvcB, SvcA>>, err |-> FALSE]}

\* var instance defs.Client: a nil interface, or a pointer to a client struct
\* {c, rs}.  A client struct is never modified after it is built, so a
\* handle is modelled by its value.
NilInstance == [nil |-> TRUE, c |-> NoTransport, rs |-> <<>>]

VARIABLES
    pc,           \* pc[p]: position of caller p in newClient
    onceState,    \* sync.Once: "fresh", "running" (f executing), "done"
    instance,     \* package variable instance
    initError,    \* package variable initError
    readers,      \* instanceMu: callers holding the read lock
    writer,       \* instanceMu: TRUE while the write lock is held
    setupRes,     \* clt, err of the once function (locals of the initializer)
    bgpc,         \* position of attemptGettingRegisteredServices
    regSrv,       \* its local regSrv
    ret,          \* ret[p]: what newClient returned to p
    got,          \* got[p]: what the accessors gave p on its handle
    setupCount,   \* executions of setupClient
    spawnCount,   \* executions of "go attemptGettingRegisteredServices"
    lookups,      \* registry lookups made (saturating at MaxLookups)
    answer,       \* the registry's answer to the latest lookup
    lastAccess,   \* the latest access to instance and the lock held for it
    seen,         \* seen[p]: the value of instance p read under the read lock
    writes,       \* assignments made to instance
    factoryFails, \* environment: setupClient returns an error
    regDown,      \* environment: every registry lookup fails
    request,      \* LambdaHandler: the APIGatewayProxyRequest being handled
    world,        \* LambdaHandler: outcomes of the collaborators it calls
    routed,       \* LambdaHandler: the handler HandleRequest dispatched to
    invoked,      \* LambdaHandler: the use case called, with its id argument
    response      \* LambdaHandler: the (response, error) returned

clientVars == <<pc, onceState, instance, initError, readers, writer, setupRes,
                bgpc, regSrv, ret, got, setupCount, spawnCount, lookups,
                answer, lastAccess, seen, writes, factoryFails, regDown>>

lambdaVars == <<request, world, routed, invoked, response>>

vars == <<clientVars, lambdaVars>>

\* ------------------------------------------------------- pure definitions

\* setupClient: builds the transport.  As written it returns a nil error on
\* every path; ff selects the failing outcome that newClient's error branch
\* handles, which only the *SetupFail specifications enable.
SetupClient(ff) ==
    IF ff THEN [c |-> NoTransport, err |-> SetupError]
          ELSE [c |-> Transport, err |-> NoError]

\* Mutation of InitialHandle: the initializer publishes no handle.
InitialHandleAbsent(clt) == NilInstance

\* instance = &client{c: clt}
InitialHandle(clt) == [nil |-> FALSE, c |-> clt, rs |-> <<>>]

\* Mutation of RefreshedHandle: the discovered records are not stored.
RefreshedHandleDropsRecords(rs) ==
    [nil |-> FALSE, c |-> NoTransport, rs |-> <<>>]

\* Mutation of RefreshedHandle: the refresh merges the records into a handle
\* that keeps the transport.
RefreshedHandleKeepsTransport(rs) ==
    [nil |-> FALSE, c |-> Transport, rs |-> rs]

\* Mutation of RefreshedHandle: the refresh clears the shared handle.
RefreshedHandleAbsent(rs) == NilInstance

\* instance = &client{rs: regSrv}
RefreshedHandle(rs) == [nil |-> FALSE, c |-> NoTransport, rs |-> rs]

\* Mutation of GetRegisteredServices: an empty list is not an error.
GetRegisteredServicesNoEmptyCheck(ans) ==
    IF ans.err THEN [services |-> <<>>, err |-> TRUE]
    ELSE [services |-> ans.services, err |-> FALSE]

\* getRegisteredServices: the registry's error, or an error for an empty
\* list, or the list.
GetRegisteredServices(ans) ==
    IF ans.err THEN [services |-> <<>>, err |-> TRUE]
    ELSE IF Len(ans.services) = 0 THEN [services |-> <<>>, err |-> TRUE]
    ELSE [services |-> ans.services, err |-> FALSE]

\* (*client).GetClient
GetClient(h) == h.c

\* (*client).GetServerName: c.rs[0].Name, a run-time panic on an empty rs.
GetServerName(h) == IF Len(h.rs) = 0 THEN Panic ELSE h.rs[1].name

\* Mutation of OnceMayRun: a check of "done" alone, with no mutual exclusion.
OnceMayRunWhileRunning(o) == o # "done"

\* once.Do runs f for the first caller only.
OnceMayRun(o) == o = "fresh"

\* Mutation of SpawnsBackground: the early return on err != nil is missing.
SpawnsAlways(err) == TRUE

\* newClient returns from the once function before "go ..." when err != nil.
SpawnsBackground(err) == err = NoError

\* The lock on instanceMu that caller p holds.
CallerLock(p) == IF p \in readers THEN "read" ELSE "none"

\* The lock on instanceMu that the background goroutine holds.
BackgroundLock == IF writer THEN "write" ELSE "none"

\* An access to instance: who, read or write, and the lock held for it.
Access(who, op, lock) == [by |-> who, op |-> op, lock |-> lock]

NoAccess == Access("none", "none", "none")

Inc(n) == IF n < MaxLookups THEN n + 1 ELSE n

\* ---------------------------------------------------------- LambdaHandler

\* Longest path parameter "id" enumerated.
MaxIdLen == 2

StatusOK == 200
StatusCreated == 201
StatusNoContent == 204
StatusNotFound == 404

Digits == {"0", "1"}
IdChars == Digits \cup {"-", "x"}

\* request.PathParameters["id"]: a string, "" when the parameter is missing.
Ids == UNION {[1..n -> IdChars] : n \in 0..MaxIdLen}

Methods == {"GET", "POST", "PUT", "DELETE", "get"}
Resources == {"/customers", "/customers/{id}", "/customers/kpi", "/customers/"}

\* request.Body, by what json.Unmarshal into CustomerJson makes of it.
Bodies == {"{customer}", "{\"age\":\"x\"}", "{"}

Requests == [method : Methods, resource : Resources, id : Ids, body : Bodies]

\* Outcomes of the collaborators whose code is outside this file: the error
\* of utils.ValidateID, of validateRequest and of the use case ("nil" for
\* none), and whether json.Marshal succeeds.
Worlds == [idErr : {"nil", "invalid_input"},
           reqErr : {"nil", "validation"},
           ucErr : {"nil", "not_found"},
           marshalOk : BOOLEAN]

NoRequest == [method |-> "", resource |-> "", id |-> <<>>, body |-> ""]
NoWorld ==
    [idErr |-> "nil", reqErr |-> "nil", ucErr |-> "nil", marshalOk |-> TRUE]
NoCall == [uc |-> "none", id |-> 0]
NoResponse == [status |-> 0, body |-> "", err |-> "none"]

DigitValue(ch) == IF ch = "1" THEN 1 ELSE 0

RECURSIVE DigitsValue(_)
DigitsValue(ds) ==
    IF Len(ds) = 0 THEN 0
    ELSE 10 * DigitsValue(SubSeq(ds, 1, Len(ds) - 1)) + DigitValue(ds[Len(ds)])

AllDigits(ds) == Len(ds) > 0 /\ \A i \in 1..Len(ds) : ds[i] \in Digits

\* strconv.ParseInt(s, 10, 64): an optional sign, then one or more decimal
\* digits; anything else (the empty string too) is an error.  The enumerated
\* strings are too short to leave the 64-bit range.
ParseInt(str) ==
    IF Len(str) > 0 /\ str[1] = "-"
    THEN LET ds == SubSeq(str, 2, Len(str)) IN
           IF AllDigits(ds) THEN [err |-> FALSE, value |-> 0 - DigitsValue(ds)]
           ELSE [err |-> TRUE, value |-> 0]
    ELSE IF AllDigits(str) THEN [err |-> FALSE, value |-> DigitsValue(str)]
    ELSE [err |-> TRUE, value |-> 0]

\* json.Unmarshal([]byte(request.Body), &req): err.Error(), "nil" for none.
Unmarshal(b) ==
    IF b = "{customer}" THEN "nil"
    ELSE IF b = "{\"age\":\"x\"}" THEN "json: cannot unmarshal string"
    ELSE "unexpected end of JSON input"

\* types.NewAPIError(err): the HTTP status of an error, by its kind.
NewAPIError(kind) ==
    CASE kind = "invalid_input" -> 400
      [] kind = "validation" -> 400
      [] kind = "not_found" -> 404
      [] OTHER -> 500

\* events.APIGatewayProxyResponse{...}, nil: the Go error is nil on every
\* return statement of the file.
Resp(status, body) == [status |-> status, body |-> body, err |-> NoError]

ErrorResponse(kind, msg) == Resp(NewAPIError(kind), msg)

Out(call, resp) == [invoked |-> call, response |-> resp]

UseCase(name, id) == [uc |-> name, id |-> id]

\* The tail shared by the handlers that return a JSON body: the use case's
\* error, else json.Marshal's error, else 200.
AfterUseCase(call, w) ==
    IF w.ucErr # "nil" THEN Out(call, ErrorResponse(w.ucErr, w.ucErr))
    ELSE IF ~w.marshalOk
    THEN Out(call, ErrorResponse("internal", "Error marshalling response"))
    ELSE Out(call, Resp(StatusOK, "json"))

\* LambdaHandler.GetCustomers
GetCustomers(w) == AfterUseCase(UseCase("GetCustomers", 0), w)

\* LambdaHandler.GetKPI
GetKPI(w) == AfterUseCase(UseCase("GetKPI", 0), w)

\* Mutation of GetCustomer: the utils.ValidateID check is missing.
GetCustomerSkipsValidateID(req, w) ==
    LET parsed == ParseInt(req.id) IN
      IF parsed.err
      THEN Out(NoCall,
               ErrorResponse("invalid_input", "invalid customer ID format"))
      ELSE AfterUseCase(UseCase("GetCustomerByID", parsed.value), w)

\* LambdaHandler.GetCustomer
GetCustomer(req, w) ==
    LET parsed == ParseInt(req.id) IN
      IF parsed.err
      THEN Out(NoCall,
               ErrorResponse("invalid_input", "invalid customer ID format"))
      ELSE IF w.idErr # "nil"
      THEN Out(NoCall, ErrorResponse(w.idErr, w.idErr))
      ELSE AfterUseCase(UseCase("GetCustomerByID", parsed.value), w)

\* CreateCustomer's message for a body that does not decode.
CreateMessage(errStr) ==
    IF errStr = "json: cannot unmarshal string" THEN "invalid data type"
    ELSE "request cannot be nil"

\* LambdaHandler.CreateCustomer
CreateCustomer(req, w) ==
    LET errStr == Unmarshal(req.body) IN
      IF errStr # "nil"
      THEN Out(NoCall, ErrorResponse("validation", CreateMessage(errStr)))
      ELSE IF w.reqErr # "nil"
      THEN Out(NoCall, ErrorResponse(w.reqErr, w.reqErr))
      ELSE IF w.ucErr # "nil"
      THEN Out(UseCase("CreateCustomer", 0), ErrorResponse(w.ucErr, w.ucErr))
      ELSE Out(UseCase("CreateCustomer", 0), Resp(StatusCreated, ""))

\* LambdaHandler.UpdateCustomer
UpdateCustomer(req, w) ==
    LET parsed == ParseInt(req.id) IN
      IF parsed.err
      THEN Out(NoCall,
               ErrorResponse("invalid_input", "invalid customer ID format"))
      ELSE IF w.idErr # "nil"
      THEN Out(NoCall, ErrorResponse(w.idErr, w.idErr))
      ELSE IF Unmarshal(req.body) # "nil"
      THEN Out(NoCall, ErrorResponse("validation", "invalid request body"))
      ELSE IF w.reqErr # "nil"
      THEN Out(NoCall, ErrorResponse(w.reqErr, w.reqErr))
      ELSE IF w.ucErr # "nil"
      THEN Out(UseCase("UpdateCustomer", parsed.value),
               ErrorResponse(w.ucErr, w.ucErr))
      ELSE Out(UseCase("UpdateCustomer", parsed.value), Resp(StatusOK, ""))

\* LambdaHandler.DeleteCustomer
DeleteCustomer(req, w) ==
    LET parsed == ParseInt(req.id) IN
      IF parsed.err
      THEN Out(NoCall,
               ErrorResponse("invalid_input", "invalid customer ID format"))
      ELSE IF w.idErr # "nil"
      THEN Out(NoCall, ErrorResponse(w.idErr, w.idErr))
      ELSE IF w.ucErr # "nil"
      THEN Out(UseCase("DeleteCustomer", parsed.value),
               ErrorResponse(w.ucErr, w.ucErr))
      ELSE Out(UseCase("DeleteCustomer", parsed.value),
               Resp(StatusNoContent, ""))

\* Mutation of Route: the method is compared without regard to case.
RouteIgnoringCase(method, resource) ==
    LET m == IF method = "get" THEN "GET" ELSE method IN
      IF m = "GET" /\ resource = "/customers" THEN "GetCustomers"
      ELSE IF m = "GET" /\ resource = "/customers/{id}" THEN "GetCustomer"
      ELSE IF m = "POST" /\ resource = "/customers" THEN "CreateCustomer"
      ELSE IF m = "PUT" /\ resource = "/customers/{id}" THEN "UpdateCustomer"
      ELSE IF m = "DELETE" /\ resource = "/customers/{id}"
      THEN "DeleteCustomer"
      ELSE IF m = "GET" /\ resource = "/customers/kpi" THEN "GetKPI"
      ELSE "default"

\* HandleRequest's switch: the first case whose condition holds.
Route(method, resource) ==
    IF method = "GET" /\ resource = "/customers" THEN "GetCustomers"
    ELSE IF method = "GET" /\ resource = "/customers/{id}" THEN "GetCustomer"
    ELSE IF method = "POST" /\ resource = "/customers" THEN "CreateCustomer"
    ELSE IF method = "PUT" /\ resource = "/customers/{id}"
    THEN "UpdateCustomer"
    ELSE IF method = "DELETE" /\ resource = "/customers/{id}"
    THEN "DeleteCustomer"
    ELSE IF method = "GET" /\ resource = "/customers/kpi" THEN "GetKPI"
    ELSE "default"

\* The body of the case HandleRequest selected.
Dispatch(handler, req, w) ==
    CASE handler = "GetCustomers" -> GetCustomers(w)
      [] handler = "GetCustomer" -> GetCustomer(req, w)
      [] handler = "CreateCustomer" -> CreateCustomer(req, w)
      [] handler = "UpdateCustomer" -> UpdateCustomer(req, w)
      [] handler = "DeleteCustomer" -> DeleteCustomer(req, w)
      [] handler = "GetKPI" -> GetKPI(w)
      [] OTHER -> Out(NoCall, Resp(StatusNotFound, "Not Found"))

\* ------------------------------------------------------------------- init

ClientIdle ==
    /\ pc = [p \in Procs |-> "start"]
    /\ onceState = "fresh"
    /\ instance = NilInstance
    /\ initError = NoError
    /\ readers = {}
    /\ writer = FALSE
    /\ setupRes = [c |-> NoTransport, err |-> NoError]
    /\ bgpc = "idle"
    /\ regSrv = <<>>
    /\ ret = [p \in Procs |-> [h |-> NilInstance, err |-> NoError]]
    /\ got = [p \in Procs |-> [client |-> NoTransport, name |-> NoName]]
    /\ setupCount = 0
    /\ spawnCount = 0
    /\ lookups = 0
    /\ answer = RegistryEmpty
    /\ lastAccess = NoAccess
    /\ seen = [p \in Procs |-> NilInstance]
    /\ writes = 0

\* No request is being handled.
LambdaIdle ==
    /\ request = NoRequest
    /\ world = NoWorld
    /\ routed = "none"
    /\ invoked = NoCall
    /\ response = NoResponse

InitCommon == ClientIdle /\ regDown \in BOOLEAN /\ LambdaIdle

\* The program as built: setupClient cannot fail.
Init == InitCommon /\ factoryFails = FALSE

\* The program with a transport factory that may fail.
InitSetupFail == InitCommon /\ factoryFails \in BOOLEAN

\* ---------------------------------------------------------------- callers

\* A goroutine calls newClient(config).
Call(p) ==
    /\ pc[p] = "start"
    /\ pc' = [pc EXCEPT ![p] = "once"]
    /\ UNCHANGED <<answer, onceState, instance, initError, readers, writer,
                   setupRes, bgpc, regSrv, ret, got, setupCount, spawnCount,
                   lookups, lastAccess, seen, writes, factoryFails, regDown,
                   lambdaVars>>

\* once.Do(f), first caller: f starts.  A caller arriving while f runs
\* blocks (neither this action nor OnceSkip is enabled for it).
OnceEnter(p) ==
    /\ pc[p] = "once"
    /\ OnceMayRun(onceState)
    /\ onceState' = "running"
    /\ pc' = [pc EXCEPT ![p] = "setup"]
    /\ UNCHANGED <<answer, instance, initError, readers, writer, setupRes,
                   bgpc, regSrv, ret, got, setupCount, spawnCount, lookups,
                   lastAccess, seen, writes, seen, writes, factoryFails,
                   regDown, lambdaVars>>

\* once.Do(f), f already completed: returns at once.
OnceSkip(p) ==
    /\ pc[p] = "once"
    /\ onceState = "done"
    /\ pc' = [pc EXCEPT ![p] = "rlock"]
    /\ UNCHANGED <<answer, onceState, instance, initError, readers, writer,
                   setupRes, bgpc, regSrv, ret, got, setupCount, spawnCount,
                   lookups, lastAccess, seen, writes, factoryFails, regDown,
                   lambdaVars>>

\* clt, err := setupClient(config)
OnceSetup(p) ==
    /\ pc[p] = "setup"
    /\ setupRes' = SetupClient(factoryFails)
    /\ setupCount' = setupCount + 1
    /\ pc' = [pc EXCEPT ![p] = "assign"]
    /\ UNCHANGED <<answer, onceState, instance, initError, readers, writer,
                   bgpc, regSrv, ret, got, spawnCount, lookups, lastAccess,
                   seen, writes, factoryFails, regDown, lambdaVars>>

\* if err != nil { initError = ...; return }; instance = &client{c: clt}
\* The assignment to instance takes no lock.
OnceAssign(p) ==
    /\ pc[p] = "assign"
    /\ IF setupRes.err # NoError
       THEN /\ initError' = setupRes.err
            /\ UNCHANGED <<instance, lastAccess, writes>>
       ELSE /\ instance' = InitialHandle(setupRes.c)
            /\ lastAccess' = Access("caller", "write", CallerLock(p))
            /\ writes' = writes + 1
            /\ UNCHANGED initError
    /\ pc' = [pc EXCEPT ![p] =
                IF SpawnsBackground(setupRes.err) THEN "spawn" ELSE "onceexit"]
    /\ UNCHANGED <<answer, onceState, readers, writer, setupRes, bgpc,
                   regSrv, ret, got, setupCount, spawnCount, lookups, seen,
                   factoryFails, regDown, lambdaVars>>

\* go attemptGettingRegisteredServices(config)
OnceSpawn(p) ==
    /\ pc[p] = "spawn"
    /\ spawnCount' = spawnCount + 1
    /\ bgpc' = IF bgpc = "idle" THEN "lookup" ELSE bgpc
    /\ pc' = [pc EXCEPT ![p] = "onceexit"]
    /\ UNCHANGED <<answer, onceState, instance, initError, readers, writer,
                   setupRes, regSrv, ret, got, setupCount, lookups,
                   lastAccess, seen, writes, seen, writes, factoryFails,
                   regDown, lambdaVars>>

\* f returns: once is done and the callers blocked in once.Do go on.
OnceExit(p) ==
    /\ pc[p] = "onceexit"
    /\ onceState' = "done"
    /\ pc' = [pc EXCEPT ![p] = "rlock"]
    /\ UNCHANGED <<answer, instance, initError, readers, writer, setupRes,
                   bgpc, regSrv, ret, got, setupCount, spawnCount, lookups,
                   lastAccess, seen, writes, seen, writes, factoryFails,
                   regDown, lambdaVars>>

\* instanceMu.RLock()
RLock(p) ==
    /\ pc[p] = "rlock"
    /\ ~writer
    /\ readers' = readers \cup {p}
    /\ pc' = [pc EXCEPT ![p] = "check"]
    /\ UNCHANGED <<answer, onceState, instance, initError, writer, setupRes,
                   bgpc, regSrv, ret, got, setupCount, spawnCount, lookups,
                   lastAccess, seen, writes, seen, writes, factoryFails,
                   regDown, lambdaVars>>

\* if instance != nil
CheckInstance(p) ==
    /\ pc[p] = "check"
    /\ lastAccess' = Access("caller", "read", CallerLock(p))
    /\ seen' = [seen EXCEPT ![p] = instance]
    /\ pc' = [pc EXCEPT ![p] = IF instance.nil THEN "retry" ELSE "break"]
    /\ UNCHANGED <<answer, onceState, instance, initError, readers, writer,
                   setupRes, bgpc, regSrv, ret, got, setupCount, spawnCount,
                   lookups, writes, factoryFails, regDown, lambdaVars>>

\* instanceMu.RUnlock(), then break, or time.Sleep(100ms) and loop again.
RUnlock(p) ==
    /\ pc[p] \in {"break", "retry"}
    /\ readers' = readers \ {p}
    /\ pc' = [pc EXCEPT ![p] = IF pc[p] = "break" THEN "return" ELSE "rlock"]
    /\ UNCHANGED <<answer, onceState, instance, initError, writer, setupRes,
                   bgpc, regSrv, ret, got, setupCount, spawnCount, lookups,
                   lastAccess, seen, writes, seen, writes, factoryFails,
                   regDown, lambdaVars>>

\* return instance, nil: instance is read again, without the lock, and the
\* error returned is always nil.  The read can race with the background
\* write; a word-sized racing read yields the old or the new pointer, which
\* are the two orders of this action and BgWrite.
Return(p) ==
    /\ pc[p] = "return"
    /\ ret' = [ret EXCEPT ![p] = [h |-> instance, err |-> NoError]]
    /\ lastAccess' = Access("caller", "read", CallerLock(p))
    /\ pc' = [pc EXCEPT ![p] = "done"]
    /\ UNCHANGED <<answer, onceState, instance, initError, readers, writer,
                   setupRes, bgpc, regSrv, got, setupCount, spawnCount,
                   lookups, seen, writes, factoryFails, regDown,
                   lambdaVars>>

\* The caller uses its handle: GetClient() and GetServerName().  A panic of
\* GetServerName is recorded as the outcome Panic.
UseHandle(p) ==
    /\ pc[p] = "done"
    /\ got' = [got EXCEPT ![p] = [client |-> GetClient(ret[p].h),
                                  name |-> GetServerName(ret[p].h)]]
    /\ pc' = [pc EXCEPT ![p] = "used"]
    /\ UNCHANGED <<answer, onceState, instance, initError, readers, writer,
                   setupRes, bgpc, regSrv, ret, setupCount, spawnCount,
                   lookups, lastAccess, seen, writes, factoryFails, regDown,
                   lambdaVars>>

Caller(p) ==
    \/ Call(p)
    \/ OnceEnter(p)
    \/ OnceSkip(p)
    \/ OnceSetup(p)
    \/ OnceAssign(p)
    \/ OnceSpawn(p)
    \/ OnceExit(p)
    \/ RLock(p)
    \/ CheckInstance(p)
    \/ RUnlock(p)
    \/ Return(p)
    \/ UseHandle(p)

\* ------------------------------------------------------------- background

\* regSrv, err := getRegisteredServices(config); on an error the loop
\* sleeps 5 seconds and continues.
BgLookup ==
    /\ bgpc = "lookup"
    /\ \E ans \in (IF regDown THEN FailingAnswers ELSE RegistryAnswers) :
         LET r == GetRegisteredServices(ans) IN
           /\ answer' = ans
           /\ regSrv' = r.services
           /\ bgpc' = IF r.err THEN "backoff" ELSE "lock"
    /\ lookups' = Inc(lookups)
    /\ UNCHANGED <<pc, onceState, instance, initError, readers, writer,
                   setupRes, ret, got, setupCount, spawnCount, lastAccess,
                   seen, writes, factoryFails, regDown, lambdaVars>>

\* time.Sleep(5 * time.Second); continue
BgBackoff ==
    /\ bgpc = "backoff"
    /\ bgpc' = "lookup"
    /\ UNCHANGED <<answer, pc, onceState, instance, initError, readers,
                   writer, setupRes, regSrv, ret, got, setupCount,
                   spawnCount, lookups, lastAccess, seen, writes,
                   factoryFails, regDown, lambdaVars>>

\* instanceMu.Lock()
BgLock ==
    /\ bgpc = "lock"
    /\ readers = {}
    /\ ~writer
    /\ writer' = TRUE
    /\ bgpc' = "write"
    /\ UNCHANGED <<answer, pc, onceState, instance, initError, readers,
                   setupRes, regSrv, ret, got, setupCount, spawnCount,
                   lookups, lastAccess, seen, writes, factoryFails, regDown,
                   lambdaVars>>

\* instance = &client{rs: regSrv}
BgWrite ==
    /\ bgpc = "write"
    /\ instance' = RefreshedHandle(regSrv)
    /\ lastAccess' = Access("background", "write", BackgroundLock)
    /\ writes' = writes + 1
    /\ bgpc' = "unlock"
    /\ UNCHANGED <<answer, pc, onceState, initError, readers, writer,
                   setupRes, regSrv, ret, got, setupCount, spawnCount,
                   lookups, seen, factoryFails, regDown, lambdaVars>>

\* instanceMu.Unlock(); break
BgUnlock ==
    /\ bgpc = "unlock"
    /\ writer' = FALSE
    /\ bgpc' = "done"
    /\ UNCHANGED <<answer, pc, onceState, instance, initError, readers,
                   setupRes, regSrv, ret, got, setupCount, spawnCount,
                   lookups, lastAccess, seen, writes, factoryFails, regDown,
                   lambdaVars>>

Background ==
    \/ BgLookup
    \/ BgBackoff
    \/ BgLock
    \/ BgWrite
    \/ BgUnlock

\* --------------------------------------------------------- specifications

Next == (\E p \in Procs : Caller(p)) \/ Background

\* Go schedules every runnable goroutine and every sleep returns.
Fairness == WF_vars(Background) /\ \A p \in Procs : WF_vars(Caller(p))

Spec == Init /\ [][Next]_vars

FairSpec == Spec /\ Fairness

SpecSetupFail == InitSetupFail /\ [][Next]_vars

FairSpecSetupFail == SpecSetupFail /\ Fairness

\* A request arrives with the collaborators in any of their outcomes.
LambdaInit ==
    /\ ClientIdle
    /\ regDown = FALSE
    /\ factoryFails = FALSE
    /\ request \in Requests
    /\ world \in Worlds
    /\ routed = "none"
    /\ invoked = NoCall
    /\ response = NoResponse

\* LambdaHandler.HandleRequest(ctx, request)
HandleRequest ==
    /\ routed = "none"
    /\ routed' = Route(request.method, request.resource)
    /\ LET out == Dispatch(routed', request, world) IN
         /\ invoked' = out.invoked
         /\ response' = out.response
    /\ UNCHANGED <<request, world, clientVars>>

LambdaSpec == LambdaInit /\ [][HandleRequest]_vars

\* ----------------------------------------------------------------- claims

\* Positions of newClient after once.Do has returned to the caller.
PastOnce == {"rlock", "check", "break", "retry", "return", "done", "used"}

Returned(p) == pc[p] \in {"done", "used"}

\* C1: for any interleaving of the concurrent callers of newClient,
\* setupClient is executed exactly once: never twice, and once by the time
\* once.Do has returned to any caller.
C1_SetupExactlyOnce ==
    /\ setupCount <= 1
    /\ \A p \in Procs : pc[p] \in PastOnce => setupCount = 1

\* C1 witness: every caller has returned from newClient after one setup.
C1_Witness == (\A p \in Procs : Returned(p)) /\ setupCount = 1

\* C2 (as claimed): every handle newClient returns has a non-empty list of
\* discovered records.
C2_ReturnedHandleHasRecords ==
    \A p \in Procs : Returned(p) => Len(ret[p].h.rs) > 0

C4_PublishedOnceThenStops ==
    /\ [](bgpc = "done" =>
            /\ ~instance.nil
            /\ instance.rs = answer.services
            /\ Len(instance.rs) > 0)
    /\ [][bgpc = "done" =>
            /\ bgpc' = "done"
            /\ lookups' = lookups
            /\ answer' = answer
            /\ instance' = instance]_vars
    /\ (bgpc = "lock") ~> (bgpc = "done")

\* C4 witness: the loop has stopped after one failed lookup and a
\* successful one that returned two records.
C4_Witness ==
    /\ bgpc = "done"
    /\ lookups = 2
    /\ instance.rs = <<SvcB, SvcA>>

\* C5: while every registry lookup fails, the discovery loop keeps
\* retrying (every lookup count up to the bound is reached and a failed
\* lookup recurs for ever), no handle with records is published and
\* newClient returns no handle with records.
C5_RetriesForeverWhenRegistryDown ==
    /\ [](regDown =>
            /\ bgpc \in {"idle", "lookup", "backoff"}
            /\ Len(instance.rs) = 0
            /\ \A p \in Procs : Len(ret[p].h.rs) = 0)
    /\ \A k \in 1..MaxLookups : regDown ~> (lookups >= k)
    /\ []<>(regDown => bgpc = "backoff")

\* C5 witness: the registry is down, the lookup counter is at its bound,
\* the loop is backing off again and a caller holds a returned handle.
C5_Witness ==
    /\ regDown
    /\ lookups = MaxLookups
    /\ bgpc = "backoff"
    /\ \E p \in Procs : Returned(p)

\* C6 (as claimed): GetClient on every handle newClient returns gives the
\* transport built during initialization.
C6_ReturnedHandleHasTransport ==
    \A p \in Procs : Returned(p) => GetClient(ret[p].h) = Transport

\* C7 (as claimed): GetServerName on a handle obtained before any
\* successful discovery (no records) ends in a defined outcome, not a panic.
C7_ServerNameNeverPanics ==
    \A p \in Procs :
        (pc[p] = "used" /\ Len(ret[p].h.rs) = 0) => got[p].name # Panic

\* C8 (as claimed): every read of the shared handle is made under the read
\* lock and every write of it under the write lock.
C8_AccessesAreLocked ==
    /\ lastAccess.op = "read" => lastAccess.lock = "read"
    /\ lastAccess.op = "write" => lastAccess.lock = "write"

\* C9: over all newClient calls exactly one background discovery task is
\* spawned: never two, and one by the time once.Do has returned to any
\* caller; the task runs only if it was spawned.
C9_OneBackgroundTask ==
    /\ spawnCount <= 1
    /\ \A p \in Procs : pc[p] \in PastOnce => spawnCount = 1
    /\ bgpc # "idle" => spawnCount = 1

\* C9 witness: every caller has returned and the one task has run.
C9_Witness ==
    /\ \A p \in Procs : Returned(p)
    /\ spawnCount = 1
    /\ bgpc = "done"

C11_HandleNeverHoldsBoth ==
    \/ instance.nil
    \/ instance.c = Transport /\ Len(instance.rs) = 0
    \/ instance.c = NoTransport /\ Len(instance.rs) > 0 /\ writes = 2

\* C11 witness: the refresh has overwritten the initializer's handle.
C11_Witness ==
    /\ ~instance.nil
    /\ instance.c = NoTransport
    /\ Len(instance.rs) > 0
    /\ bgpc = "done"

C13_NoRacingRead ==
    /\ \A p \in Procs : pc[p] = "return" => bgpc # "write"
    /\ \A p \in Procs : Returned(p) => ret[p].h = seen[p]

\* C14: readiness is monotonic: the shared handle, once non-absent, never
\* becomes absent again, so a caller that has observed it non-absent never
\* observes it absent later; and the handle is assigned at most twice.
C14_ReadinessIsMonotonic ==
    /\ [][~instance.nil => ~instance'.nil]_vars
    /\ [][\A p \in Procs : ~seen[p].nil => ~seen'[p].nil]_vars
    /\ [](writes <= 2)

\* C14 witness: both assignments have been made and a caller that observed
\* the handle has returned.
C14_Witness ==
    /\ writes = 2
    /\ ~instance.nil
    /\ \E p \in Procs : Returned(p) /\ ~seen[p].nil

Handled == response # NoResponse

\* The six (method, resource) pairs HandleRequest serves, with the handler
\* of each; "default" for every other pair.
ListedHandler(method, resource) ==
    CASE <<method, resource>> = <<"GET", "/customers">> -> "GetCustomers"
      [] <<method, resource>> = <<"GET", "/customers/{id}">> -> "GetCustomer"
      [] <<method, resource>> = <<"POST", "/customers">> -> "CreateCustomer"
      [] <<method, resource>> = <<"PUT", "/customers/{id}">>
           -> "UpdateCustomer"
      [] <<method, resource>> = <<"DELETE", "/customers/{id}">>
           -> "DeleteCustomer"
      [] <<method, resource>> = <<"GET", "/customers/kpi">> -> "GetKPI"
      [] OTHER -> "default"

\* The use case each handler calls.
OwnUseCase(handler) ==
    IF handler = "GetCustomer" THEN "GetCustomerByID" ELSE handler

\* C15: HandleRequest dispatches on the exact (method, resource) pair: a
\* listed pair runs its own handler (and no use case of another handler),
\* any other pair gets 404 "Not Found" with no use case called; the Go
\* error returned is nil for every request.
C15_DispatchIsExact ==
    Handled =>
        /\ response.err = NoError
        /\ routed = ListedHandler(request.method, request.resource)
        /\ routed = "default" =>
               /\ response.status = StatusNotFound
               /\ response.body = "Not Found"
               /\ invoked = NoCall
        /\ routed # "default" => invoked.uc \in {"none", OwnUseCase(routed)}

\* C15 witness: a pair that differs from a listed one only by the case of
\* the method has been answered 404.
C15_Witness ==
    /\ Handled
    /\ request.method = "get"
    /\ request.resource = "/customers"
    /\ response.status = StatusNotFound
    /\ response.body = "Not Found"

IdFails == ParseInt(request.id).err \/ world.idErr # "nil"

BodyFails == Unmarshal(request.body) # "nil" \/ world.reqErr # "nil"

TakesId == {"GetCustomer", "UpdateCustomer", "DeleteCustomer"}

TakesBody == {"UpdateCustomer", "CreateCustomer"}

====
